---- MODULE Spec2Model ----
(***************************************************************************)
(* Model of the LEDO Sports Academy record server.                         *)
(*                                                                         *)
(*   src/server.js          the server: storage connection with retry,     *)
(*                          the Member / Expense / Donation routes         *)
(*   src/unnamed/part_001   the second server file of the repository; its  *)
(*                          POST /api/members assigns the id in the        *)
(*                          handler and inserts                            *)
(*                                                                         *)
(* The document store (MongoDB through mongoose) is modelled by what the   *)
(* handlers rely on: collections are sequences of documents in insertion   *)
(* order, Member.id carries a unique index, query filters and documents    *)
(* are cast by the schema, validate() runs the required validators.        *)
(* Every await on the store is one atomic step of the store; the handler   *)
(* code between two awaits runs with the step that follows it.             *)
(*                                                                         *)
(* Four specifications share the variables: Spec (the member routes with   *)
(* requests in flight together), SeqSpec (the member routes, one request   *)
(* at a time, with the wider inputs), LedgerSpec (the expense and donation *)
(* routes) and ConnSpec (the connection retry loop, with fairness).        *)
(***************************************************************************)
EXTENDS Integers, Sequences, FiniteSets, Bags, TLC

VARIABLES members, reqs, resp, maxAssigned,
          expenses, donations, lresp,
          readyState, storeUp, pending, timers, running, failures, lastEvt

vars == <<members, reqs, resp, maxAssigned, expenses, donations, lresp,
          readyState, storeUp, pending, timers, running, failures, lastEvt>>

memberVars == <<members, reqs, resp, maxAssigned>>
ledgerVars == <<expenses, donations, lresp>>
connVars == <<readyState, storeUp, pending, timers, running, failures, lastEvt>>

(***************************************************************************)
(* Bounds of the model.                                                    *)
(***************************************************************************)
\* largest member id a create may assign
MaxId == 2
\* member requests suspended on a store call at the same time
MaxReq == 2
\* expense and donation documents stored, in total
MaxDocs == 2
\* connect attempts in flight and retry timers pending that are told apart
MaxPending == 2
MaxTimers == 3
\* failed connect attempts that are counted
MaxFailures == 3

(***************************************************************************)
(* JavaScript values that arrive in request bodies and path parameters.    *)
(* A string is a sequence of one-character strings.                        *)
(***************************************************************************)
Undefined == [t |-> "undefined", s |-> <<>>, n |-> 0]
NaN == [t |-> "NaN", s |-> <<>>, n |-> 0]
JSString(s) == [t |-> "string", s |-> s, n |-> 0]
JSNumber(n) == [t |-> "number", s |-> <<>>, n |-> n]

isNaN(v) == v.t = "NaN"

\* !v for the values above: undefined, the empty string, 0 and NaN are falsy
Falsy(v) ==
    \/ v.t = "undefined"
    \/ v.t = "NaN"
    \/ (v.t = "string" /\ v.s = <<>>)
    \/ (v.t = "number" /\ v.n = 0)

IsSpace(c) == c = " "
IsDigit(c) == c \in {"0", "1", "2", "3", "4", "5", "6", "7", "8", "9"}
DigitVal(c) ==
    CASE c = "0" -> 0 [] c = "1" -> 1 [] c = "2" -> 2 [] c = "3" -> 3
      [] c = "4" -> 4 [] c = "5" -> 5 [] c = "6" -> 6 [] c = "7" -> 7
      [] c = "8" -> 8 [] c = "9" -> 9

RECURSIVE TrimStart(_)
TrimStart(s) ==
    IF s = <<>> THEN s
    ELSE IF IsSpace(Head(s)) THEN TrimStart(Tail(s)) ELSE s

RECURSIVE TrimEnd(_)
TrimEnd(s) ==
    IF s = <<>> THEN s
    ELSE IF IsSpace(s[Len(s)]) THEN TrimEnd(SubSeq(s, 1, Len(s) - 1)) ELSE s

\* String.prototype.trim
trim(s) == TrimEnd(TrimStart(s))

\* the longest prefix of s made of digits
RECURSIVE DigitPrefix(_)
DigitPrefix(s) ==
    IF s = <<>> \/ ~IsDigit(Head(s)) THEN <<>>
    ELSE <<Head(s)>> \o DigitPrefix(Tail(s))

RECURSIVE DigitsValue(_)
DigitsValue(s) ==
    IF s = <<>> THEN 0
    ELSE 10 * DigitsValue(SubSeq(s, 1, Len(s) - 1)) + DigitVal(s[Len(s)])

\* parseInt(string): leading white space is skipped, an optional sign, then
\* the longest run of digits; NaN when there is no digit
parseInt(s) ==
    LET t == TrimStart(s)
        neg == t # <<>> /\ Head(t) = "-"
        u == IF t # <<>> /\ Head(t) \in {"-", "+"} THEN Tail(t) ELSE t
        d == DigitPrefix(u)
    IN  IF d = <<>> THEN NaN
        ELSE JSNumber(IF neg THEN 0 - DigitsValue(d) ELSE DigitsValue(d))

\* Number(string) on decimal integers: white space is trimmed, the whole
\* rest has to be an optionally signed run of digits, "" is 0
ToNumber(s) ==
    LET t == trim(s)
        neg == t # <<>> /\ Head(t) = "-"
        u == IF t # <<>> /\ Head(t) \in {"-", "+"} THEN Tail(t) ELSE t
    IN  IF t = <<>> THEN JSNumber(0)
        ELSE IF u = <<>> \/ DigitPrefix(u) # u THEN NaN
        ELSE JSNumber(IF neg THEN 0 - DigitsValue(u) ELSE DigitsValue(u))

\* mongoose's cast of a value to a schema path of type Number: undefined
\* stays, a string goes through Number(), NaN is a CastError
CastError == [t |-> "CastError", s |-> <<>>, n |-> 0]
Null == [t |-> "null", s |-> <<>>, n |-> 0]

\* CastNumber that lets a value that is no number through as null
CastNumberLoose(v) ==
    IF v.t = "string"
    THEN (IF v.s = <<>> \/ isNaN(ToNumber(v.s)) THEN Null ELSE ToNumber(v.s))
    ELSE v

\* mongoose's cast to Number: "" is null, a string goes through Number()
CastNumber(v) ==
    IF v.t = "string"
    THEN (IF v.s = <<>> THEN Null
          ELSE IF isNaN(ToNumber(v.s)) THEN CastError ELSE ToNumber(v.s))
    ELSE v

(***************************************************************************)
(* memberSchema and the Member collection.                                 *)
(* A member document keeps id, name, phone, joinDate and payments; address *)
(* and photoUrl are optional strings no handler branches on and are left   *)
(* out.                                                                    *)
(***************************************************************************)
Payment(date, amount, week) == [date |-> date, amount |-> amount, week |-> week]
P1 == Payment(JSString(<<"d">>), JSNumber(100), JSString(<<"W">>))

NoPayments == [t |-> "undefined", a |-> <<>>]
PaymentList(a) == [t |-> "array", a |-> a]

\* required: true on a String path: undefined, null and "" are rejected
RequiredString(v) == v.t = "string" /\ v.s # <<>>
\* required: true on a Number path
RequiredNumber(v) == v.t = "number"

\* payments: date, amount and week required, amount >= 0 when minAmount
PaymentValid(p, minAmount) ==
    /\ RequiredString(p.date)
    /\ RequiredNumber(p.amount)
    /\ (minAmount => p.amount.n >= 0)
    /\ RequiredString(p.week)

PaymentsValid(a, minAmount) ==
    \A i \in 1..Len(a) : PaymentValid(a[i], minAmount)

\* memberSchemaValid with the required validators left out
memberSchemaNotRequired(doc) == PaymentsValid(doc.payments, TRUE)

\* memberSchema of src/server.js: the required validators of a document
memberSchemaValid(doc) ==
    /\ RequiredNumber(doc.id)
    /\ RequiredString(doc.name)
    /\ RequiredString(doc.phone)
    /\ RequiredString(doc.joinDate)
    /\ PaymentsValid(doc.payments, TRUE)

\* memberSchema of src/unnamed/part_001: no trim, no minimum amount
part001SchemaValid(doc) ==
    /\ RequiredNumber(doc.id)
    /\ RequiredString(doc.name)
    /\ RequiredString(doc.phone)
    /\ RequiredString(doc.joinDate)
    /\ PaymentsValid(doc.payments, FALSE)

\* the ids held by a collection
Ids(coll) == {coll[i].id : i \in 1..Len(coll)}

\* index of the first document whose id is v, 0 when there is none
RECURSIVE FirstFrom(_, _, _)
FirstFrom(coll, v, i) ==
    IF i > Len(coll) THEN 0
    ELSE IF coll[i].id = v THEN i ELSE FirstFrom(coll, v, i + 1)

FindOne(coll, v) == FirstFrom(coll, v, 1)

RemoveAt(coll, i) == SubSeq(coll, 1, i - 1) \o SubSeq(coll, i + 1, Len(coll))

\* FindOneAndDelete with the filter ignored: the first document goes
FindOneAndDeleteAny(coll, v) == IF coll = <<>> THEN coll ELSE Tail(coll)

\* Model.findOneAndDelete({ id: v }) on the collection
FindOneAndDelete(coll, v) ==
    IF FindOne(coll, v) = 0 THEN coll ELSE RemoveAt(coll, FindOne(coll, v))

\* Member.findOne().sort({ id: -1 }): the largest id, 0 for no document
LastMemberId(ms) ==
    IF Len(ms) = 0 THEN 0
    ELSE CHOOSE m \in {ms[i].id.n : i \in 1..Len(ms)} :
            \A i \in 1..Len(ms) : ms[i].id.n <= m

\* NewId from the number of members instead of the largest id
NewIdByCount(ms) == Len(ms) + 1

\* lastMember ? lastMember.id + 1 : 1
NewId(ms) == IF Len(ms) = 0 THEN 1 ELSE LastMemberId(ms) + 1

\* UniqueIndexAllows with no index on Member.id
NoUniqueIndex(ms, doc) == TRUE

\* unique: true on Member.id: the index refuses a second document of an id
UniqueIndexAllows(ms, doc) == doc.id \notin Ids(ms)

\* Member.findOneAndUpdate({ id: v }, updateData): $set of the given fields
FindOneAndUpdate(ms, v, updateData) ==
    IF FindOne(ms, v) = 0 THEN ms
    ELSE [ms EXCEPT ![FindOne(ms, v)] =
            [@ EXCEPT !.name = updateData.name,
                      !.phone = updateData.phone,
                      !.payments = updateData.payments]]

\* payments stored under id v (<<>> when no document has the id)
PaymentsOf(ms, v) ==
    IF FindOne(ms, v) = 0 THEN <<>> ELSE ms[FindOne(ms, v)].payments

(***************************************************************************)
(* Requests.                                                               *)
(***************************************************************************)
Today == JSString(<<"d">>)

\* request bodies of the member routes
Body(name, phone, joinDate, payments, id) ==
    [name |-> name, phone |-> phone, joinDate |-> joinDate,
     payments |-> payments, id |-> id]

\* a body with name and phone, and what it may say besides
GoodBody(payments) ==
    Body(JSString(<<" ", "A">>), JSString(<<"5">>), Today, payments, Undefined)

\* bodies whose name or phone is missing, empty, or white space
BlankBodies ==
    {Body(Undefined, JSString(<<"5">>), Today, NoPayments, Undefined),
     Body(JSString(<<>>), JSString(<<"5">>), Today, NoPayments, Undefined),
     Body(JSString(<<" ">>), JSString(<<"5">>), Today, NoPayments, Undefined),
     Body(JSString(<<" ", "A">>), Undefined, Today, NoPayments, Undefined),
     Body(JSString(<<" ", "A">>), JSString(<<" ">>), Today, NoPayments, Undefined)}

PaymentsVals == {NoPayments, PaymentList(<<>>), PaymentList(<<P1>>)}

\* POST /api/members of src/server.js
PostBodies ==
    {GoodBody(p) : p \in PaymentsVals}
    \cup {Body(JSString(<<"A">>), JSString(<<"5">>), Undefined, NoPayments, JSNumber(2))}
    \cup BlankBodies

\* PUT /api/members/:id
PutBodies ==
    {Body(JSString(<<"B", " ">>), JSString(<<"5">>), Undefined, p, Undefined) :
        p \in PaymentsVals}
    \cup BlankBodies

\* POST /api/members of src/unnamed/part_001
Part001Bodies ==
    {Body(JSString(<<"A">>), JSString(<<"5">>), Today, p, Undefined) :
        p \in PaymentsVals}
    \cup {Body(JSString(<<"A">>), JSString(<<"5">>), Undefined, NoPayments, JSNumber(2)),
          Body(Undefined, JSString(<<"5">>), Today, NoPayments, Undefined),
          Body(JSString(<<"A">>), JSString(<<>>), Today, NoPayments, Undefined)}

\* path parameters of /members/:id
MemberParams == {<<"1">>, <<"2">>, <<"3">>, <<"2", "a">>, <<"a">>}

\* the requests that are let overlap
OverlapPostBodies == {GoodBody(PaymentList(<<P1>>))}
OverlapPutBodies ==
    {Body(JSString(<<"A", " ">>), JSString(<<"5">>), Undefined, PaymentList(<<P1>>), Undefined),
     Body(Undefined, JSString(<<"5">>), Undefined, PaymentList(<<P1>>), Undefined)}
OverlapPart001Bodies ==
    {Body(JSString(<<"A">>), JSString(<<"5">>), Today, NoPayments, Undefined),
     Body(JSString(<<"A">>), JSString(<<"5">>), Today, PaymentList(<<P1>>), Undefined),
     Body(Undefined, JSString(<<"5">>), Today, NoPayments, Undefined)}
OverlapParams == {<<"1">>, <<"2">>, <<"3">>}

\* req.body.payments || []
PaymentsOrEmpty(body) ==
    IF body.payments.t = "undefined" THEN <<>> ELSE body.payments.a

\* what a request says about payments
PaymentsTag(body) ==
    IF body.payments.t = "undefined" THEN "absent"
    ELSE IF body.payments.a = <<>> THEN "empty" ELSE "populated"

\* name or phone missing, empty, or empty after trimming
Blank(v) == v.t # "string" \/ trim(v.s) = <<>>
BlankTag(body) ==
    IF Blank(body.name) \/ Blank(body.phone) THEN "blank" ELSE "valid"

Respond(op, status, tag) == resp' = [op |-> op, status |-> status, tag |-> tag]

Max(a, b) == IF a >= b THEN a ELSE b
Min(a, b) == IF a <= b THEN a ELSE b

\* a handler suspended on a store call, with what it holds
Suspended(pc, id, name, phone, joinDate, payments, tag) ==
    [pc |-> pc, id |-> id, name |-> name, phone |-> phone,
     joinDate |-> joinDate, payments |-> payments, tag |-> tag]

DocOf(r) ==
    [id |-> r.id, name |-> r.name, phone |-> r.phone,
     joinDate |-> r.joinDate, payments |-> r.payments]

(***************************************************************************)
(* The member routes of src/server.js.                                     *)
(***************************************************************************)
\* GET /api/members
GetMembers(ok) ==
    /\ Respond("GET", IF ok THEN 200 ELSE 500, "")
    /\ UNCHANGED <<members, reqs, maxAssigned>>
    /\ UNCHANGED <<ledgerVars, connVars>>

\* POST /api/members: memberData carries no id; member.validate() runs the
\* required validators before save() and its pre('save') hook assign one
PostMembers(body) ==
    /\ UNCHANGED <<ledgerVars, connVars>>
    /\ IF body.name.t # "string" \/ body.phone.t # "string"
       THEN \* req.body.name.trim() throws a TypeError
            /\ Respond("POST", 400, BlankTag(body))
            /\ UNCHANGED <<members, reqs, maxAssigned>>
       ELSE LET memberData ==
                   [id |-> Undefined,
                    name |-> JSString(trim(body.name.s)),
                    phone |-> JSString(trim(body.phone.s)),
                    joinDate |-> IF Falsy(body.joinDate) THEN Today
                                 ELSE body.joinDate,
                    payments |-> PaymentsOrEmpty(body)]
            IN  IF ~memberSchemaValid(memberData)
                THEN /\ Respond("POST", 400, BlankTag(body))
                     /\ UNCHANGED <<members, reqs, maxAssigned>>
                ELSE \* member.save(): pre('save') sets the id, then the insert
                     LET saved == [memberData EXCEPT
                                      !.id = JSNumber(NewId(members))]
                     IN  IF UniqueIndexAllows(members, saved)
                         THEN /\ members' = Append(members, saved)
                              /\ maxAssigned' = Max(maxAssigned, saved.id.n)
                              /\ Respond("POST", 201, BlankTag(body))
                              /\ UNCHANGED reqs
                         ELSE /\ Respond("POST", 400, BlankTag(body))
                              /\ UNCHANGED <<members, reqs, maxAssigned>>

\* updatePayments taking the payments of the request
updatePaymentsFromBody(existingMember, body) ==
    IF body.payments.t = "undefined" THEN <<>> ELSE body.payments.a

\* updateData.payments of PUT /api/members/:id
updatePayments(existingMember, body) == existingMember.payments

\* PUT /api/members/:id up to the await of findOneAndUpdate: parseInt,
\* Member.findOne, the required-field check, updateData
PutMembersFindOne(param, body, ok) ==
    LET memberId == parseInt(param)
        tag == PaymentsTag(body)
    IN  /\ UNCHANGED <<ledgerVars, connVars>>
        /\ IF isNaN(memberId)
           THEN /\ Respond("PUT", 400, tag)
                /\ UNCHANGED <<members, reqs, maxAssigned>>
           ELSE IF ~ok
           THEN /\ Respond("PUT", 400, tag)
                /\ UNCHANGED <<members, reqs, maxAssigned>>
           ELSE IF FindOne(members, memberId) = 0
           THEN /\ Respond("PUT", 404, tag)
                /\ UNCHANGED <<members, reqs, maxAssigned>>
           ELSE IF Falsy(body.name) \/ Falsy(body.phone)
           THEN /\ Respond("PUT", 400, tag)
                /\ UNCHANGED <<members, reqs, maxAssigned>>
           ELSE /\ BagCardinality(reqs) < MaxReq
                /\ reqs' = reqs (+) SetToBag({Suspended(
                       "findOneAndUpdate", memberId,
                       JSString(trim(body.name.s)), JSString(trim(body.phone.s)),
                       Undefined,
                       updatePayments(members[FindOne(members, memberId)], body),
                       tag)})
                /\ UNCHANGED <<members, resp, maxAssigned>>

\* PUT /api/members/:id from Member.findOneAndUpdate (runValidators) on
PutMembersFindOneAndUpdate(r, ok) ==
    /\ r \in BagToSet(reqs)
    /\ r.pc = "findOneAndUpdate"
    /\ reqs' = reqs (-) SetToBag({r})
    /\ UNCHANGED <<maxAssigned, ledgerVars, connVars>>
    /\ IF ~(/\ RequiredString(r.name)
            /\ RequiredString(r.phone)
            /\ PaymentsValid(r.payments, TRUE))
       THEN /\ Respond("PUT", 400, r.tag)
            /\ UNCHANGED members
       ELSE IF ~ok
       THEN /\ Respond("PUT", 400, r.tag)
            /\ UNCHANGED members
       ELSE IF FindOne(members, r.id) = 0
       THEN /\ Respond("PUT", 404, r.tag)
            /\ UNCHANGED members
       ELSE /\ members' = FindOneAndUpdate(members, r.id, r)
            /\ Respond("PUT", 200, r.tag)

\* DELETE /api/members/:id
DeleteMembers(param, ok) ==
    LET memberId == parseInt(param)
    IN  /\ UNCHANGED <<reqs, maxAssigned, ledgerVars, connVars>>
        /\ IF isNaN(memberId)
           THEN /\ Respond("DELETE", 400, "")
                /\ UNCHANGED members
           ELSE IF ~ok
           THEN /\ Respond("DELETE", 500, "")
                /\ UNCHANGED members
           ELSE IF FindOne(members, memberId) = 0
           THEN /\ Respond("DELETE", 404, "")
                /\ UNCHANGED members
           ELSE /\ members' = FindOneAndDelete(members, memberId)
                /\ Respond("DELETE", 200, "")

(***************************************************************************)
(* POST /api/members of src/unnamed/part_001.                              *)
(***************************************************************************)
\* up to the await of member.save(): the required-field check, the query
\* for the last member, newId, memberData
Part001PostFindOne(body, ok) ==
    /\ UNCHANGED <<ledgerVars, connVars>>
    /\ IF Falsy(body.name) \/ Falsy(body.phone)
       THEN /\ Respond("POST1", 400, "")
            /\ UNCHANGED <<members, reqs, maxAssigned>>
       ELSE IF ~ok
       THEN /\ Respond("POST1", 400, "")
            /\ UNCHANGED <<members, reqs, maxAssigned>>
       ELSE /\ NewId(members) <= MaxId
            /\ BagCardinality(reqs) < MaxReq
            /\ reqs' = reqs (+) SetToBag({Suspended(
                   "save", JSNumber(NewId(members)), body.name, body.phone,
                   body.joinDate, PaymentsOrEmpty(body), "")})
            /\ UNCHANGED <<members, resp, maxAssigned>>

\* member.save(): validation, then the insert under the unique index
Part001PostSave(r, ok) ==
    /\ r \in BagToSet(reqs)
    /\ r.pc = "save"
    /\ reqs' = reqs (-) SetToBag({r})
    /\ UNCHANGED <<ledgerVars, connVars>>
    /\ IF ~part001SchemaValid(DocOf(r))
       THEN /\ Respond("POST1", 400, "")
            /\ UNCHANGED <<members, maxAssigned>>
       ELSE IF ~ok
       THEN /\ Respond("POST1", 400, "")
            /\ UNCHANGED <<members, maxAssigned>>
       ELSE IF ~UniqueIndexAllows(members, DocOf(r))
       THEN \* err.code === 11000: 'Duplicate member ID found'
            /\ Respond("POST1", 400, "duplicate")
            /\ UNCHANGED <<members, maxAssigned>>
       ELSE /\ members' = Append(members, DocOf(r))
            /\ maxAssigned' = Max(maxAssigned, r.id.n)
            /\ Respond("POST1", 201, "")

MemberInit ==
    /\ members = <<>>
    /\ reqs = EmptyBag
    /\ resp = [op |-> "", status |-> 0, tag |-> ""]
    /\ maxAssigned = 0

\* requests overlap: a request arrives while others are suspended, a
\* suspended handler resumes
MemberNext ==
    \/ \E ok \in BOOLEAN : GetMembers(ok)
    \/ \E body \in OverlapPostBodies : PostMembers(body)
    \/ \E param \in OverlapParams, body \in OverlapPutBodies, ok \in BOOLEAN :
          PutMembersFindOne(param, body, ok)
    \/ \E r \in BagToSet(reqs), ok \in BOOLEAN : PutMembersFindOneAndUpdate(r, ok)
    \/ \E param \in OverlapParams, ok \in BOOLEAN : DeleteMembers(param, ok)
    \/ \E body \in OverlapPart001Bodies, ok \in BOOLEAN : Part001PostFindOne(body, ok)
    \/ \E r \in BagToSet(reqs), ok \in BOOLEAN : Part001PostSave(r, ok)

\* no handler suspended: every request runs alone from arrival to response
Quiet == reqs = EmptyBag

\* one request at a time
SeqMemberNext ==
    \/ \E ok \in BOOLEAN : Quiet /\ GetMembers(ok)
    \/ \E body \in PostBodies : Quiet /\ PostMembers(body)
    \/ \E param \in MemberParams, body \in PutBodies, ok \in BOOLEAN :
          Quiet /\ PutMembersFindOne(param, body, ok)
    \/ \E r \in BagToSet(reqs), ok \in BOOLEAN : PutMembersFindOneAndUpdate(r, ok)
    \/ \E param \in MemberParams, ok \in BOOLEAN : Quiet /\ DeleteMembers(param, ok)
    \/ \E body \in Part001Bodies, ok \in BOOLEAN : Quiet /\ Part001PostFindOne(body, ok)
    \/ \E r \in BagToSet(reqs), ok \in BOOLEAN : Part001PostSave(r, ok)

(***************************************************************************)
(* The expense and donation routes of src/server.js.  expenseSchema and    *)
(* donationSchema declare id and amount as Number with no validator; a     *)
(* document keeps id and amount (date and the other strings are never      *)
(* branched on).                                                           *)
(***************************************************************************)
LedgerBody(id, amount) == [id |-> id, amount |-> amount]

LedgerBodies ==
    {LedgerBody(id, JSNumber(5)) :
        id \in {Undefined, JSNumber(1), JSNumber(2), JSString(<<"2">>), JSString(<<"a">>)}}
    \cup {LedgerBody(JSNumber(1), JSString(<<"a">>))}

\* path parameters of /expenses/:id and /donations/:id
LedgerParams == {<<"1">>, <<"2">>, <<"3">>, <<"a">>, <<"1", "a">>, <<" ", "1">>}

LRespond(op, status, tag) == lresp' = [op |-> op, status |-> status, tag |-> tag]

\* the cast of a path parameter in the filter { id: req.params.id }
CastFilterId(param) == CastNumber(JSString(param))

\* what a delete finds for its parameter
MatchTag(coll, param) ==
    IF CastFilterId(param).t = "CastError" THEN "invalid"
    ELSE IF FindOne(coll, CastFilterId(param)) = 0 THEN "absent" ELSE "present"

\* new Model(req.body) and save(): 201 with the document, 400 on a cast
\* error or a failing store
SaveStatus(body, ok) ==
    IF CastNumber(body.id).t = "CastError" \/ CastNumber(body.amount).t = "CastError"
    THEN 400
    ELSE IF ~ok THEN 400 ELSE 201

Saved(coll, body, ok) ==
    IF SaveStatus(body, ok) = 201
    THEN Append(coll, [id |-> CastNumber(body.id), amount |-> CastNumber(body.amount)])
    ELSE coll

\* Model.findOneAndDelete({ id: req.params.id }) and the response
DeleteStatus(param, ok) ==
    IF CastFilterId(param).t = "CastError" THEN 400
    ELSE IF ~ok THEN 400 ELSE 204

Deleted(coll, param, ok) ==
    IF DeleteStatus(param, ok) = 204
    THEN FindOneAndDelete(coll, CastFilterId(param))
    ELSE coll

\* GET /api/expenses
GetExpenses(ok) ==
    /\ LRespond("GET /expenses", IF ok THEN 200 ELSE 500, "")
    /\ UNCHANGED <<expenses, donations, memberVars, connVars>>

\* POST /api/expenses
PostExpenses(body, ok) ==
    /\ Len(expenses) + Len(donations) < MaxDocs
    /\ expenses' = Saved(expenses, body, ok)
    /\ LRespond("POST /expenses", SaveStatus(body, ok), "")
    /\ UNCHANGED <<donations, memberVars, connVars>>

\* DELETE /api/expenses/:id
DeleteExpenses(param, ok) ==
    /\ expenses' = Deleted(expenses, param, ok)
    /\ LRespond("DELETE /expenses", DeleteStatus(param, ok), MatchTag(expenses, param))
    /\ UNCHANGED <<donations, memberVars, connVars>>

\* GET /api/donations
GetDonations(ok) ==
    /\ LRespond("GET /donations", IF ok THEN 200 ELSE 500, "")
    /\ UNCHANGED <<expenses, donations, memberVars, connVars>>

\* POST /api/donations
PostDonations(body, ok) ==
    /\ Len(expenses) + Len(donations) < MaxDocs
    /\ donations' = Saved(donations, body, ok)
    /\ LRespond("POST /donations", SaveStatus(body, ok), "")
    /\ UNCHANGED <<expenses, memberVars, connVars>>

\* DELETE /api/donations/:id
DeleteDonations(param, ok) ==
    /\ donations' = Deleted(donations, param, ok)
    /\ LRespond("DELETE /donations", DeleteStatus(param, ok), MatchTag(donations, param))
    /\ UNCHANGED <<expenses, memberVars, connVars>>

LedgerInit ==
    /\ expenses = <<>>
    /\ donations = <<>>
    /\ lresp = [op |-> "", status |-> 0, tag |-> ""]

LedgerNext ==
    \/ \E ok \in BOOLEAN : GetExpenses(ok)
    \/ \E body \in LedgerBodies, ok \in BOOLEAN : PostExpenses(body, ok)
    \/ \E param \in LedgerParams, ok \in BOOLEAN : DeleteExpenses(param, ok)
    \/ \E ok \in BOOLEAN : GetDonations(ok)
    \/ \E body \in LedgerBodies, ok \in BOOLEAN : PostDonations(body, ok)
    \/ \E param \in LedgerParams, ok \in BOOLEAN : DeleteDonations(param, ok)

(***************************************************************************)
(* The storage connection of src/server.js.                                *)
(*   readyState  mongoose.connection.readyState                            *)
(*   storeUp     whether the store can be reached (the environment)        *)
(*   pending     mongoose.connect() calls of connectWithRetry not settled  *)
(*   timers      setTimeout(connectWithRetry, 5000) callbacks not yet run  *)
(*   running     the process has not exited                                *)
(*   failures    failed attempts so far, lastEvt the last thing that       *)
(*               happened (both only observe)                              *)
(* pending, timers and failures stop counting at their bounds.             *)
(***************************************************************************)
\* connectWithRetry is called: mongoose.connect() starts
connectWithRetry(state) ==
    /\ pending' = Min(pending + 1, MaxPending)
    /\ readyState' = IF state = "connected" THEN "connected" ELSE "connecting"

\* the catch of connectWithRetry ending the process
ExitOnConnectError ==
    /\ timers' = timers
    /\ running' = FALSE

\* the catch of connectWithRetry: log, setTimeout(connectWithRetry, 5000)
CatchConnectError ==
    /\ timers' = Min(timers + 1, MaxTimers)
    /\ running' = running

\* await mongoose.connect() resolves
ConnectResolves ==
    /\ running
    /\ pending > 0
    /\ storeUp \/ readyState = "connected"
    /\ pending' = pending - 1
    /\ readyState' = "connected"
    /\ lastEvt' = "connected"
    /\ UNCHANGED <<storeUp, timers, running, failures, memberVars, ledgerVars>>

\* await mongoose.connect() rejects after serverSelectionTimeoutMS; the
\* driver may emit 'disconnected' for the failed attempt, whose handler
\* calls connectWithRetry at once
ConnectRejects(emitted) ==
    /\ running
    /\ pending > 0
    /\ ~storeUp
    /\ readyState # "connected"
    /\ CatchConnectError
    /\ pending' = IF emitted THEN pending ELSE pending - 1
    /\ readyState' = IF pending' > 0 THEN "connecting" ELSE "disconnected"
    /\ failures' = Min(failures + 1, MaxFailures)
    /\ lastEvt' = "failed"
    /\ UNCHANGED <<storeUp, memberVars, ledgerVars>>

\* a retry timer fires
TimerFires ==
    /\ running
    /\ timers > 0
    /\ timers' = timers - 1
    /\ connectWithRetry(readyState)
    /\ lastEvt' = "attempt"
    /\ UNCHANGED <<storeUp, running, failures, memberVars, ledgerVars>>

\* mongoose.connection.on('disconnected'): an established connection is
\* lost, the handler calls connectWithRetry
Disconnected ==
    /\ running
    /\ readyState = "connected"
    /\ ~storeUp
    /\ connectWithRetry("disconnected")
    /\ lastEvt' = "attempt"
    /\ UNCHANGED <<storeUp, timers, running, failures, memberVars, ledgerVars>>

\* the store becomes unreachable, or reachable again
StoreGoesDown ==
    /\ storeUp
    /\ storeUp' = FALSE
    /\ UNCHANGED <<readyState, pending, timers, running, failures, lastEvt,
                   memberVars, ledgerVars>>

StoreComesUp ==
    /\ ~storeUp
    /\ storeUp' = TRUE
    /\ UNCHANGED <<readyState, pending, timers, running, failures, lastEvt,
                   memberVars, ledgerVars>>

\* process.on('SIGTERM'): the server closes and the process exits
Sigterm ==
    /\ running
    /\ running' = FALSE
    /\ readyState' = "disconnected"
    /\ lastEvt' = "SIGTERM"
    /\ UNCHANGED <<storeUp, pending, timers, failures, memberVars, ledgerVars>>

\* connectWithRetry() at line 43 has started the first attempt
ConnInit ==
    /\ readyState = "connecting"
    /\ storeUp = FALSE
    /\ pending = 1
    /\ timers = 0
    /\ running = TRUE
    /\ failures = 0
    /\ lastEvt = "attempt"

ConnectSettles == ConnectResolves \/ \E emitted \in BOOLEAN : ConnectRejects(emitted)

ConnNext ==
    \/ ConnectResolves
    \/ \E emitted \in BOOLEAN : ConnectRejects(emitted)
    \/ TimerFires
    \/ Disconnected
    \/ StoreGoesDown
    \/ StoreComesUp
    \/ Sigterm

(***************************************************************************)
(* Specifications.                                                         *)
(***************************************************************************)
Init == MemberInit /\ LedgerInit /\ ConnInit

\* the member routes, requests overlapping
Next == MemberNext

Spec == Init /\ [][Next]_vars

\* the member routes, one request at a time
SeqNext == SeqMemberNext

SeqSpec == Init /\ [][SeqNext]_vars

\* the expense and donation routes
LedgerSpec == Init /\ [][LedgerNext]_vars

\* the connection: a pending timer fires (after 5 s) and a started
\* mongoose.connect() settles (within serverSelectionTimeoutMS)
ConnSpec ==
    /\ Init
    /\ [][ConnNext]_vars
    /\ WF_vars(TimerFires)
    /\ WF_vars(ConnectSettles)

(***************************************************************************)
(* Properties of the member routes.                                        *)
(***************************************************************************)
\* the store without the documents of id v
Without(ms, v) == SelectSeq(ms, LAMBDA d : d.id # v)

\* one plus the largest id of the store, 1 for an empty store
ExpectedId(ms) == IF ms = <<>> THEN 1 ELSE 1 + LastMemberId(ms)

\* C1: a create whose name and phone are non-empty after trimming and that
\* carries no id, handled alone, ends with 201 and persists a member whose
\* id is one plus the largest id of the store (1 for an empty store).
C1_CreateAssignsNextId ==
    [][\A body \in PostBodies :
          (/\ Quiet
           /\ ~Blank(body.name)
           /\ ~Blank(body.phone)
           /\ body.id = Undefined
           /\ PostMembers(body))
          => /\ resp'.status = 201
             /\ Len(members') = Len(members) + 1
             /\ members'[Len(members')].id = JSNumber(ExpectedId(members))]_vars

\* C2: an update handled alone never changes the payments stored for any
\* id, whatever the request says about payments.
C2_UpdateKeepsPayments ==
    [][/\ (Quiet /\ resp'.op = "PUT") => members' = members
       /\ (\E r \in BagToSet(reqs') :
              r.pc = "findOneAndUpdate" /\ CopiesIn(r, reqs') > CopiesIn(r, reqs))
          => members' = members
       /\ \A r \in BagToSet(reqs), ok \in BOOLEAN :
             PutMembersFindOneAndUpdate(r, ok)
             => /\ Ids(members') = Ids(members)
                /\ \A v \in Ids(members) :
                      PaymentsOf(members', v) = PaymentsOf(members, v)]_vars

\* an update that carried a populated payments list succeeded on a member
\* whose stored payments are empty
C2_Witness ==
    /\ resp = [op |-> "PUT", status |-> 200, tag |-> "populated"]
    /\ \E i \in 1..Len(members) :
          /\ members[i].name = JSString(<<"B">>)
          /\ members[i].payments = <<>>

\* C3: a create whose name or phone is missing, empty, or empty after
\* trimming gets 400 and leaves the members as they were.
C3_BlankCreateRejected ==
    [][\A body \in PostBodies :
          ((Blank(body.name) \/ Blank(body.phone)) /\ PostMembers(body))
          => (resp'.status = 400 /\ members' = members)]_vars

C3_Witness ==
    /\ resp = [op |-> "POST", status |-> 400, tag |-> "blank"]
    /\ Len(members) > 0

\* C4: a delete whose id parses to an integer no stored member has, and
\* whose store call answers, gets 404 and leaves the members as they were;
\* a delete of an existing id removes that one member and no other.
C4_DeleteExactlyOne ==
    [][\A param \in MemberParams :
          (~isNaN(parseInt(param)) /\ DeleteMembers(param, TRUE))
          => IF parseInt(param) \notin Ids(members)
             THEN resp'.status = 404 /\ members' = members
             ELSE /\ resp'.status = 200
                  /\ Len(members') = Len(members) - 1
                  /\ members' = Without(members, parseInt(param))]_vars

C4_Witness ==
    /\ resp = [op |-> "DELETE", status |-> 404, tag |-> ""]
    /\ Len(members) = 2

\* no two stored members share an id
UniqueIds ==
    \A i, j \in 1..Len(members) : members[i].id = members[j].id => i = j

\* C5: however creates overlap, no two stored members share an id; an
\* insert of an id the store already holds is refused with 400 and persists
\* nothing, an insert of a free id is the one that is persisted.
C5_ConcurrentCreates ==
    /\ []UniqueIds
    /\ [][\A r \in BagToSet(reqs), ok \in BOOLEAN :
             Part001PostSave(r, ok)
             => IF r.id \in Ids(members)
                THEN resp'.status = 400 /\ members' = members
                ELSE (ok /\ part001SchemaValid(DocOf(r)))
                     => (resp'.status = 201
                         /\ members' = Append(members, DocOf(r)))]_vars

\* the second of two creates that computed the same id was refused
C5_Witness ==
    /\ resp = [op |-> "POST1", status |-> 400, tag |-> "duplicate"]
    /\ Len(members) > 0
    /\ UniqueIds

\* a step in which a store call of a member operation fails
StoreCallFails ==
    \/ GetMembers(FALSE)
    \/ \E param \in MemberParams, body \in PutBodies :
          ~isNaN(parseInt(param)) /\ PutMembersFindOne(param, body, FALSE)
    \/ \E r \in BagToSet(reqs) :
          /\ RequiredString(r.name) /\ RequiredString(r.phone)
          /\ PutMembersFindOneAndUpdate(r, FALSE)
    \/ \E param \in MemberParams :
          ~isNaN(parseInt(param)) /\ DeleteMembers(param, FALSE)
    \/ \E body \in Part001Bodies :
          ~Falsy(body.name) /\ ~Falsy(body.phone) /\ Part001PostFindOne(body, FALSE)
    \/ \E r \in BagToSet(reqs) :
          part001SchemaValid(DocOf(r)) /\ Part001PostSave(r, FALSE)

\* C6: when a store call of a member operation fails the request gets 500
\* and the store is unchanged.
C6_StoreFailureIs500 ==
    [][StoreCallFails => (resp'.status = 500 /\ members' = members)]_vars

\* C9: the id a create assigns is greater than every id an earlier create
\* assigned.
C9_IdsStrictlyIncrease ==
    [][/\ \A r \in BagToSet(reqs), ok \in BOOLEAN :
             (Part001PostSave(r, ok) /\ resp'.status = 201)
             => r.id.n > maxAssigned
       /\ \A body \in PostBodies :
             (PostMembers(body) /\ resp'.status = 201)
             => members'[Len(members')].id.n > maxAssigned]_vars

\* C9 as amended: the id a create computes is greater than every id the
\* store holds when the create reads the largest id.
C9_IdAboveStoredAtRead ==
    [][\A r \in BagToSet(reqs') :
          (r.pc = "save" /\ CopiesIn(r, reqs') > CopiesIn(r, reqs))
          => \A i \in 1..Len(members) : r.id.n > members[i].id.n]_vars

\* a create has computed an id that an earlier create had assigned to a
\* member deleted since
C9_Witness ==
    /\ Len(members) > 0
    /\ \E r \in BagToSet(reqs) :
          /\ r.pc = "save"
          /\ r.id.n <= maxAssigned
          /\ r.id \notin Ids(members)

\* C10: whatever overlaps an update, the payments stored under its id
\* right after its write equal those stored right before.
C10_UpdateWriteKeepsPayments ==
    [][\A r \in BagToSet(reqs), ok \in BOOLEAN :
          PutMembersFindOneAndUpdate(r, ok)
          => PaymentsOf(members', r.id) = PaymentsOf(members, r.id)]_vars

(***************************************************************************)
(* Properties of the expense and donation routes.                          *)
(***************************************************************************)
\* no stored record has the id the parameter denotes
NoRecordHas(coll, param) ==
    \A i \in 1..Len(coll) : coll[i].id # ToNumber(param)

\* C7: a delete of an expense or a donation by an id no stored record has
\* (and whose store call answers) gets 204 and leaves the collection as it
\* was, whatever the path parameter is.
C7_DeleteAbsentIs204 ==
    [][/\ \A param \in LedgerParams :
             (NoRecordHas(expenses, param) /\ DeleteExpenses(param, TRUE))
             => (lresp'.status = 204 /\ expenses' = expenses)
       /\ \A param \in LedgerParams :
             (NoRecordHas(donations, param) /\ DeleteDonations(param, TRUE))
             => (lresp'.status = 204 /\ donations' = donations)]_vars

\* C7 as amended: with the store call answering, a parameter that casts to
\* a number no stored record has gets 204, a parameter that does not cast
\* to a number gets 400; the collection is unchanged in both cases.
C7_DeleteAbsentByCast ==
    [][/\ \A param \in LedgerParams :
             (NoRecordHas(expenses, param) /\ DeleteExpenses(param, TRUE))
             => /\ lresp'.status = IF isNaN(ToNumber(param)) THEN 400 ELSE 204
                /\ expenses' = expenses
       /\ \A param \in LedgerParams :
             (NoRecordHas(donations, param) /\ DeleteDonations(param, TRUE))
             => /\ lresp'.status = IF isNaN(ToNumber(param)) THEN 400 ELSE 204
                /\ donations' = donations]_vars

\* a delete by a numeric id that no stored expense has was answered 204
C7_Witness ==
    /\ lresp = [op |-> "DELETE /expenses", status |-> 204, tag |-> "absent"]
    /\ Len(expenses) > 0

(***************************************************************************)
(* Properties of the storage connection.                                   *)
(***************************************************************************)
\* C8: a failed connection attempt never ends the process and schedules a
\* retry; after every failed attempt another attempt is eventually made
\* (unless SIGTERM ends the process); if the store from some point on stays
\* reachable the connection is established.
C8_RetryForever ==
    /\ [][(running /\ ~running') => lastEvt' = "SIGTERM"]_vars
    /\ [][(\E emitted \in BOOLEAN : ConnectRejects(emitted)) => timers' > 0]_vars
    /\ ((lastEvt = "failed") ~> (lastEvt = "attempt" \/ ~running))
    /\ (<>[]storeUp => []<>(readyState = "connected" \/ ~running))

\* the connection was established after failed attempts
C8_Witness ==
    /\ failures = MaxFailures
    /\ readyState = "connected"
    /\ running
====
